---- MODULE Spec2Model ----
(***************************************************************************)
(* Model of the dispatch engine of async-hierarchical-fsm                  *)
(* (src/src/fsm.rs, StateMachine<S, CTX, E>).                              *)
(*                                                                         *)
(* The engine is generic over the handlers it is built with, so the        *)
(* handlers are the model's inputs: each hook invocation is a suspension   *)
(* point (an .await), and the response a hook returns is drawn from the    *)
(* set of responses a Stateful implementation can give.  One action of the *)
(* model is one stretch of engine code between two suspension points.      *)
(***************************************************************************)
EXTENDS Integers, Sequences, FiniteSets

VARIABLES
    current_state,   \* StateMachine.current_state : Option<S>
    initial_state,   \* StateMachine.initial_state : Option<S>
    context,         \* StateMachine.context : CTX (the marks on_event handlers leave)
    pc,              \* "idle", or the hook the call in flight is suspended in
    call,            \* the API call in flight, or the last one made
    event,           \* process_event: the event argument
    active,          \* process_event: the local `current_state` of the delegation loop
    current_target,  \* transition_to: the local `current_target`
    previous_state,  \* transition_to: the local `previous_state`
    result,          \* the value the last call returned
    pre,             \* history: current_state when the call began
    trace,           \* history: the hooks invoked by the call, with their responses
    lastHook,        \* history: the last of on_enter / on_exit invoked on each state
                     \* (an on_exit dropped with its call is marked as such)
    build,           \* the configuration the engine was built with
    timeout,         \* the value the last get_current_timeout returned
    followed,        \* history: how far the host has followed the device scenario
    tasks,           \* the tasks sharing the engine behind a lock
    entered,         \* history: the last on_enter that returned, and its answer
    queries          \* the get_current_timeout calls suspended in get_timeout

vars == <<current_state, initial_state, context, pc, call, event, active,
          current_target, previous_state, result, pre, trace, lastHook,
          build, timeout, followed, tasks, entered, queries>>

----------------------------------------------------------------------------
(* Bounds of the model *)

\* longest sequence of hooks one call may run
MaxTrace == 6

\* number of marks the context holds
MaxCtx == 2

\* largest TestContext.value
MaxValue == 100

\* how far below zero TestContext.value goes
MaxBelow == 20

\* largest DeviceContext.error_count
MaxErrors == 167

\* most get_current_timeout futures the host keeps alive at once
MaxQueries == 2

----------------------------------------------------------------------------
(* Identifiers, registry and resolver *)

\* Option::None in the current-state slot
None == "None"

\* the configurations an engine is built with:
\*   "tree"      three registered states with arbitrary handlers and the
\*               resolver Display -> Settings -> Root; Volume is not registered
\*   "flat"      the same registry and handlers, built without a resolver
\*   "redirect"  Root and Settings with arbitrary handlers, and Volume with the
\*               handler whose on_enter always answers Transition(Root)
\*               (TransitionOnEnterState); Display is not registered
\*   "ui"        the engine of create_test_fsm in fsm.rs, with its handlers
\*   "device"    the engine of create_device_fsm in integration_tests.rs
\*   "loop"      a hierarchy the engine does not guard against: the resolver
\*               sends Settings and Display to each other and both answer
\*               Super to Timeout; on_enter of Volume always transitions to
\*               Volume, on_enter of Menu to Mute and on_enter of Mute to Menu
\*   "orphan"    Settings and Display with arbitrary handlers and the
\*               resolver Display -> Settings -> Root; Root is not registered
\*   "replaced"  the builder chain of create_test_fsm followed by a second
\*               registration of Menu, with the handler DisplayState
Builds == {"tree", "flat", "redirect", "ui", "device", "loop", "orphan",
           "replaced"}

\* the builds whose handlers are those of create_test_fsm
UiBuilds == {"ui", "replaced"}

\* the identifiers of the "loop" build
LoopIds == {"Root", "Settings", "Display", "Volume", "Menu", "Mute"}

\* the states whose parent chain comes back to them
Cycle == {"Settings", "Display"}

\* the states whose on_enter always answers Transition
Loopers == {"Volume", "Menu", "Mute"}

\* the target on_enter of a state of Loopers always names
LoopNext(s) ==
    CASE s = "Menu" -> "Mute"
      [] s = "Mute" -> "Menu"
      [] OTHER      -> "Volume"

\* enum TestState
UiIds == {"Root", "Menu", "Settings", "Display", "Volume"}

\* the .state(id, handler) calls of create_test_fsm (fsm.rs:593-597); a
\* handler type is named after the state create_test_fsm registers it for
\* (Volume is TransitionOnEnterState)
TestChain ==
    << <<"Root", "Root">>, <<"Menu", "Menu">>, <<"Settings", "Settings">>,
       <<"Display", "Display">>, <<"Volume", "Volume">> >>

\* a further .state(TestState::Menu, DisplayState)
MenuAgain == << <<"Menu", "Display">> >>

\* the .state calls the host makes on the builder, in order
Registrations ==
    CASE build = "replaced" -> TestChain \o MenuAgain
      [] OTHER              -> TestChain

\* builder.rs:30: HashMap::new()
EmptyRegistry == <<>>

\* variant: an identifier that has a handler keeps it
insert_IfAbsent(reg, id, h) ==
    IF id \in DOMAIN reg THEN reg
    ELSE [x \in DOMAIN reg \cup {id} |-> IF x = id THEN h ELSE reg[x]]

\* builder.rs:40: self.states.insert(state_id, Box::new(state_impl))
insert(reg, id, h) ==
    [x \in DOMAIN reg \cup {id} |-> IF x = id THEN h ELSE reg[x]]

RECURSIVE RegistryOf(_)
\* the map the builder holds after the .state calls regs (builder.rs:35-42)
RegistryOf(regs) ==
    IF regs = <<>> THEN EmptyRegistry
    ELSE LET n == Len(regs)
         IN  insert(RegistryOf(SubSeq(regs, 1, n - 1)), regs[n][1], regs[n][2])

\* the registries build() hands to StateMachine::new (builder.rs:53-56)
ChainRegistry == RegistryOf(TestChain)
ReplacedRegistry == RegistryOf(TestChain \o MenuAgain)

\* StateMachine.states of the builds of UiBuilds
Registry ==
    CASE build = "replaced" -> ReplacedRegistry
      [] OTHER              -> ChainRegistry

\* the handler self.states.get(&s) returns (fsm.rs:200, 210, 259)
HandlerOf(s) == IF build \in UiBuilds /\ s \in DOMAIN Registry THEN Registry[s] ELSE s

\* enum DeviceState
DeviceIds == {"Off", "Standby", "Active", "Error"}

\* the state identifiers the host may name
Ids ==
    CASE build \in UiBuilds -> UiIds
      [] build = "device" -> DeviceIds
      [] build = "loop"   -> LoopIds
      [] OTHER            -> {"Root", "Settings", "Display", "Volume"}

\* the keys of the registry (StateMachine.states)
states ==
    CASE build = "ui"       -> UiIds
      [] build = "replaced" -> DOMAIN Registry
      [] build = "device"   -> DeviceIds
      [] build = "redirect" -> {"Root", "Settings", "Volume"}
      [] build = "loop"     -> LoopIds
      [] build = "orphan"   -> {"Settings", "Display"}
      [] OTHER              -> {"Root", "Settings", "Display"}

\* the event values
Events ==
    CASE build \in UiBuilds -> {"Enter", "Back", "Up", "Down", "Select", "Timeout"}
      [] build = "device" -> {"PowerOn", "PowerOff", "Activate", "Deactivate",
                              "ErrorOccurred", "Reset"}
      [] OTHER            -> {"Enter", "Timeout"}

\* the messages a handler may put in Response::Error
Msgs ==
    CASE build \in UiBuilds -> {"Root: Unhandled event"}
      [] build = "device" -> {"Device is off"}
      [] OTHER            -> {"m1", "m2"}

\* the message of the error raised when delegation is exhausted
UnhandledMsg == "Unhandled event, no superstate available"

\* variant: a resolver in which Settings and Display are each other's parent
TestResolver_Cyclic(s) ==
    CASE s = "Settings" -> "Display"
      [] s = "Display"  -> "Settings"
      [] OTHER          -> None

\* the resolver of the test suite: Display -> Settings -> Root
TestResolver(s) ==
    CASE s \in {"Menu", "Settings"} -> "Root"
      [] s = "Display"              -> "Settings"
      [] OTHER                      -> None

\* a resolver with a cycle: Settings and Display are each other's parent
CyclicResolver(s) ==
    CASE s = "Settings" -> "Display"
      [] s = "Display"  -> "Settings"
      [] OTHER          -> None

\* variant: an engine built without a resolver gets a hierarchy all the same
DefaultResolver_HasParents(s) == TestResolver(s)

\* fsm.rs:149: the resolver of an engine built without one
DefaultResolver(s) == None

\* StateMachine.superstate_fn
superstate_fn(s) ==
    CASE build \in {"flat", "device"} -> DefaultResolver(s)
      [] build = "loop"               -> CyclicResolver(s)
      [] OTHER                        -> TestResolver(s)

----------------------------------------------------------------------------
(* Response<S> and Error<S> *)

Handled == [kind |-> "Handled", arg |-> ""]
ErrorResp(m) == [kind |-> "Error", arg |-> m]
Transition(s) == [kind |-> "Transition", arg |-> s]
Super == [kind |-> "Super", arg |-> ""]

\* every value of Response<S>
Response == {Handled, Super} \cup {ErrorResp(m) : m \in Msgs}
                \cup {Transition(s) : s \in Ids}

\* a hook that has been invoked and has not returned yet
Pending == [kind |-> "Pending", arg |-> ""]

\* the return value of on_exit
Unit == [kind |-> "Unit", arg |-> ""]

Ok == [kind |-> "Ok", state |-> "", msg |-> ""]
StateMachineNotInitialized ==
    [kind |-> "StateMachineNotInitialized", state |-> "", msg |-> ""]
StateInvalid(s, m) == [kind |-> "StateInvalid", state |-> s, msg |-> m]
InvalidEvent(s, m) == [kind |-> "InvalidEvent", state |-> s, msg |-> m]
StateNotRegistered(s) == [kind |-> "StateNotRegistered", state |-> s, msg |-> ""]
OnEnterSuper(s) == [kind |-> "OnEnterSuper", state |-> s, msg |-> ""]

\* no call has returned yet / the call is still in flight
NoResult == [kind |-> "NoResult", state |-> "", msg |-> ""]

----------------------------------------------------------------------------
(* The handlers: what a Stateful implementation may answer *)

\* Option<Duration>: None, and Some(d) with d in seconds
NoTimeout == <<>>
Some(d) == <<d>>

\* the mark on_event of state s leaves in the context before it returns;
\* the context keeps the last MaxCtx marks
Mutate(ctx, s) == IF Len(ctx) < MaxCtx THEN Append(ctx, s) ELSE Append(Tail(ctx), s)

\* --- the handlers of create_test_fsm (fsm.rs:411-578); of TestContext only
\* --- `value` is kept, the entries and exits it logs are the trace

\* on_enter of RootState .. DisplayState and of TransitionOnEnterState
UiOnEnter(s) == IF s = "Volume" THEN Transition("Root") ELSE Handled

\* on_event of RootState, MenuState, SettingsState, DisplayState, Volume
UiOnEvent(s, e) ==
    CASE s = "Root" ->
           IF e = "Enter" THEN Transition("Menu")
           ELSE ErrorResp("Root: Unhandled event")
      [] s = "Menu" ->
           CASE e = "Back"           -> Transition("Root")
             [] e = "Select"         -> Transition("Settings")
             [] e \in {"Up", "Down"} -> Handled
             [] OTHER                -> Super
      [] s = "Settings" ->
           CASE e = "Select" -> Transition("Display")
             [] e = "Back"   -> Transition("Menu")
             [] OTHER        -> Super
      [] s = "Display" -> IF e \in {"Up", "Down"} THEN Handled ELSE Super
      [] OTHER -> Handled

\* the step of MenuState on Up / Down (fsm.rs:469-473)
MenuStep == 1

\* the step of DisplayState on Up / Down (fsm.rs:537, 541)
DisplayStep == 10

\* what the on_event handlers do to TestContext.value
UiEventCtx(s, e, ctx) ==
    LET step == CASE s = "Menu" -> MenuStep [] s = "Display" -> DisplayStep [] OTHER -> 0
    IN  CASE e = "Up"   -> [ctx EXCEPT !.value = @ + step]
          [] e = "Down" -> [ctx EXCEPT !.value = @ - step]
          [] OTHER      -> ctx

\* MenuState::get_timeout switches above this value (fsm.rs:485)
ValueThreshold == 5

\* get_timeout of the handlers of create_test_fsm
UiTimeout(s, ctx) ==
    CASE s = "Root" -> Some(30)
      [] s = "Menu" -> IF ctx.value > ValueThreshold THEN Some(5) ELSE Some(10)
      [] OTHER      -> NoTimeout

\* --- the handlers of create_device_fsm (integration_tests.rs:38-158)

\* on_event of OffState, StandbyState, ActiveState, ErrorState
DeviceOnEvent(s, e, ctx) ==
    CASE s = "Off" ->
           IF e = "PowerOn" THEN Transition("Standby") ELSE ErrorResp("Device is off")
      [] s = "Standby" ->
           CASE e = "PowerOff"      -> Transition("Off")
             [] e = "Activate"      -> Transition("Active")
             [] e = "ErrorOccurred" -> Transition("Error")
             [] OTHER               -> Handled
      [] s = "Active" ->
           CASE e = "PowerOff"      -> Transition("Off")
             [] e = "Deactivate"    -> Transition("Standby")
             [] e = "ErrorOccurred" -> Transition("Error")
             [] OTHER               -> Handled
      [] OTHER ->
           CASE e = "Reset" ->
                  IF ctx.error_count < 5 THEN Transition("Standby")
                  ELSE Transition("Off")
             [] e = "PowerOff" -> Transition("Off")
             [] OTHER          -> Handled

\* what the on_enter handlers do to DeviceContext
DeviceEnterCtx(s, ctx) ==
    CASE s = "Off"     -> [ctx EXCEPT !.power_level = 0]
      [] s = "Standby" -> [ctx EXCEPT !.power_level = 25]
      [] s = "Active"  -> [ctx EXCEPT !.power_level = 100]
      [] OTHER         -> [ctx EXCEPT !.error_count = @ + 1, !.power_level = 10]

\* get_timeout of the device handlers
DeviceTimeout(s, ctx) ==
    CASE s = "Standby" -> Some(60)
      [] s = "Active"  -> IF ctx.error_count > 3 THEN Some(10) ELSE Some(30)
      [] s = "Error"   -> Some(5)
      [] OTHER         -> NoTimeout

\* --- the handlers of the engine, by build

\* the responses on_enter of state s may return
on_enter(s, ctx) ==
    CASE build \in UiBuilds                  -> {UiOnEnter(HandlerOf(s))}
      [] build = "device"                    -> {Handled}
      [] build = "redirect" /\ s = "Volume"  -> {Transition("Root")}
      [] build = "loop" /\ s \in Loopers     -> {Transition(LoopNext(s))}
      [] build = "loop" /\ s \in Cycle       -> {Handled}
      [] OTHER                               -> Response

\* the responses on_event of state s may return to event e
on_event(s, e, ctx) ==
    CASE build \in UiBuilds                  -> {UiOnEvent(HandlerOf(s), e)}
      [] build = "device"                    -> {DeviceOnEvent(s, e, ctx)}
      [] build = "redirect" /\ s = "Volume"  -> {Handled}
      [] build = "loop" /\ s \in Cycle /\ e = "Timeout" -> {Super}
      [] OTHER                               -> Response

\* the context the host hands to the builder
InitialContext ==
    CASE build \in UiBuilds -> [value |-> 0]
      [] build = "device" -> [power_level |-> 0, error_count |-> 0]
      [] OTHER            -> <<>>

\* the contexts the model follows
CtxInBounds(ctx) ==
    CASE build \in UiBuilds -> ctx.value \in (0 - MaxBelow)..MaxValue
      [] build = "device" -> ctx.error_count <= MaxErrors
      [] OTHER            -> TRUE

\* the values the host writes to TestContext.value: the one it was built
\* with, those of the tests (fsm.rs:764, 910) and one no test writes
HostValues == {0, 7, 42, 100}

\* the contexts the host writes through context_mut
HostContexts ==
    CASE build \in UiBuilds -> {[value |-> v] : v \in HostValues}
      [] build = "device"  -> {InitialContext}
      [] OTHER             -> {InitialContext, <<"Root">>}

\* variant: what the handler wrote to the context is lost
on_enter_ctx_Lost(s, ctx) == ctx

\* what on_enter of state s does to the context
on_enter_ctx(s, ctx) == IF build = "device" THEN DeviceEnterCtx(s, ctx) ELSE ctx

\* what on_exit of state s does to the context
on_exit_ctx(s, ctx) == ctx

\* variant: what the handler wrote to the context is lost
on_event_ctx_Lost(s, e, ctx) == ctx

\* what on_event of state s does to the context on event e
on_event_ctx(s, e, ctx) ==
    CASE build \in UiBuilds -> UiEventCtx(HandlerOf(s), e, ctx)
      [] build = "device" -> ctx
      [] build = "redirect" /\ s = "Volume" -> ctx
      [] OTHER            -> Mutate(ctx, s)

\* the answer of get_timeout of state s (fsm.rs:96-98 unless overridden)
get_timeout(s, ctx) ==
    CASE build \in UiBuilds -> UiTimeout(HandlerOf(s), ctx)
      [] build = "device" -> DeviceTimeout(s, ctx)
      [] OTHER            -> NoTimeout

\* the device scenario: the calls of test_device_lifecycle, in order
Scenario ==
    << <<"init", "Off">>, <<"process_event", "PowerOn">>,
       <<"process_event", "Activate">>, <<"process_event", "ErrorOccurred">>,
       <<"process_event", "Reset">>, <<"process_event", "PowerOff">> >>

\* the host has left the scenario
Left == -1

\* the scenario position after the host makes call c with argument a
Follow(c, a) ==
    IF followed # Left /\ followed < Len(Scenario) /\ Scenario[followed + 1] = <<c, a>>
    THEN followed + 1
    ELSE Left

----------------------------------------------------------------------------
(* A call run to its return in one step *)

\* the builds whose handlers are functions of their arguments
Deterministic == build \in UiBuilds \cup {"device"}

\* what a call leaves behind: the slot, the context and the value returned
Outcome(cur, ctx, res) == [cur |-> cur, ctx |-> ctx, res |-> res]

\* a call that has not returned within MaxTrace hooks
Diverged == [kind |-> "Diverged", state |-> "", msg |-> ""]

RECURSIVE RunTransition(_, _, _, _)
\* transition_to(target) run to its return (fsm.rs:193-249), n hooks left
RunTransition(cur, ctx, target, n) ==
    LET exits == cur # None /\ cur \in states
        c1 == IF exits THEN on_exit_ctx(cur, ctx) ELSE ctx
        n1 == IF exits THEN n - 1 ELSE n
    IN  IF target \notin states
        THEN Outcome(target, c1, StateNotRegistered(target))
        ELSE IF n1 < 1 THEN Outcome(target, c1, Diverged)
        ELSE LET r == CHOOSE x \in on_enter(target, c1) : TRUE
                 c2 == on_enter_ctx(target, c1)
             IN  CASE r.kind = "Handled" -> Outcome(target, c2, Ok)
                   [] r.kind = "Transition" ->
                        RunTransition(target, c2, r.arg, n1 - 1)
                   [] r.kind = "Error" ->
                        Outcome(target, c2, StateInvalid(target, r.arg))
                   [] OTHER -> Outcome(target, c2, OnEnterSuper(target))

RECURSIVE RunEvent(_, _, _, _, _)
\* the delegation loop of process_event run to its return (fsm.rs:258-295)
RunEvent(cur, act, ctx, e, n) ==
    IF act \notin states THEN Outcome(cur, ctx, StateNotRegistered(act))
    ELSE IF n < 1 THEN Outcome(cur, ctx, Diverged)
    ELSE LET r == CHOOSE x \in on_event(act, e, ctx) : TRUE
             c1 == on_event_ctx(act, e, ctx)
         IN  CASE r.kind = "Handled" -> Outcome(cur, c1, Ok)
               [] r.kind = "Transition" -> RunTransition(cur, c1, r.arg, n - 1)
               [] r.kind = "Super" ->
                    IF superstate_fn(act) # None
                    THEN RunEvent(cur, superstate_fn(act), c1, e, n - 1)
                    ELSE Outcome(cur, c1, InvalidEvent(act, UnhandledMsg))
               [] OTHER -> Outcome(cur, c1, InvalidEvent(act, r.arg))

\* the host makes call c with argument a only if the context the call
\* leaves is one the model follows; with handlers that are functions of
\* their arguments that context is known when the call starts, so no call
\* the host makes is held up half-way
WithinBounds(c, a) ==
    IF ~Deterministic THEN TRUE
    ELSE CASE c = "init" ->
                CtxInBounds(RunTransition(current_state, context, a, MaxTrace).ctx)
           [] c = "process_event" ->
                \/ current_state = None
                \/ CtxInBounds(RunEvent(current_state, current_state, context,
                                        a, MaxTrace).ctx)
           [] OTHER -> CtxInBounds(a)

\* the tasks of test_concurrent_operations: the test body and the two it spawns
Tasks == {"main", "task1", "task2"}

----------------------------------------------------------------------------
(* History bookkeeping *)

Hook(h, s) == [hook |-> h, state |-> s, resp |-> Pending]

\* the trace with the response of the hook in flight filled in
Returned(tr, r) == [tr EXCEPT ![Len(tr)].resp = r]

\* the hooks a response sets off must fit in the trace
Room(n) == Len(trace) + n <= MaxTrace

----------------------------------------------------------------------------
(* transition_to *)

\* variant: a call that borrows the engine mutably starts beside queries
Exclusive_Never(q) == TRUE

\* init, process_event and context_mut take &mut self (fsm.rs:159, 252,
\* 309): they start only when no get_current_timeout future, which holds
\* &self, is alive
Exclusive(q) == q = 0

\* the call returns r
Return(r, tr) ==
    /\ pc' = "idle"
    /\ result' = r
    /\ trace' = tr
    /\ UNCHANGED lastHook

\* the engine invokes hook h of state s and is suspended until it returns
Invoke(h, s, tr) ==
    /\ pc' = h
    /\ result' = NoResult
    /\ trace' = Append(tr, Hook(h, s))
    /\ lastHook' = IF h = "on_event" THEN lastHook ELSE [lastHook EXCEPT ![s] = h]

\* variant: the exit of the current state is skipped
ExitNeeded_Never(cur) == FALSE

\* fsm.rs:200-201: the current state has an on_exit to run
ExitNeeded(cur) == cur # None /\ cur \in states

\* variant: the slot is not updated
SlotValue_KeepsPrevious(target, prev) == prev

\* fsm.rs:207: the value written to the current-state slot
SlotValue(target, prev) == target

\* variant: the engine rolls back to the state it left
SlotOnEnterError_RollsBack(cur, prev) == prev

\* fsm.rs:243: the Error arm returns without touching the slot
SlotOnEnterError(cur, prev) == cur

\* variant: the error names the state that was left, not the missing target
MissingTarget_NamesPrevious(target, prev) == StateNotRegistered(prev)

\* fsm.rs:213: the error of a target absent from the registry
MissingTarget(target, prev) == StateNotRegistered(target)

\* fsm.rs:206-217: set the slot, look the target up, invoke its on_enter
SetAndEnter(target, tr) ==
    /\ current_state' = SlotValue(target, current_state)
    /\ current_target' = target
    /\ IF target \in states
       THEN Invoke("on_enter", target, tr)
       ELSE Return(MissingTarget(target, current_state), tr)

\* variant: on_exit is started and left running while the loop goes on
ExitAwaited_Spawned(cur) == FALSE

\* fsm.rs:202: the loop is suspended until on_exit of cur has returned
ExitAwaited(cur) == TRUE

\* fsm.rs:196-204: one turn of the loop up to the first hook it awaits
transition_to(target, tr) ==
    /\ previous_state' = current_state
    /\ IF ExitNeeded(current_state)
       THEN IF ExitAwaited(current_state)
            THEN /\ Invoke("on_exit", current_state, tr)
                 /\ current_target' = target
                 /\ UNCHANGED current_state
            ELSE SetAndEnter(target, Append(tr, Hook("on_exit", current_state)))
       ELSE SetAndEnter(target, tr)

\* on_exit of the previous state returns (fsm.rs:202)
OnExitReturns ==
    /\ pc = "on_exit"
    /\ SetAndEnter(current_target, Returned(trace, Unit))
    /\ context' = on_exit_ctx(current_state, context)
    /\ UNCHANGED <<initial_state, call, event, active, previous_state, pre,
                   build, timeout, followed, tasks, entered, queries>>

\* variant: the loop goes round again with the target it just entered
NextTarget_Stale(new_state, target) == target

\* fsm.rs:240: the target of the next turn of the loop
NextTarget(new_state, target) == new_state

\* variant: a Super answered by on_enter is taken for Handled
EnterArm_SuperSettles(r) == IF r.kind = "Super" THEN "Handled" ELSE r.kind

\* variant: a Transition answered by on_enter ends the protocol like Handled
EnterArm_TransitionSettles(r) == IF r.kind = "Transition" THEN "Handled" ELSE r.kind

\* fsm.rs:218-246: the arm of the match an on_enter response takes
EnterArm(r) == r.kind

\* on_enter of the target returns r (fsm.rs:217-247)
OnEnterReturns(r) ==
    /\ pc = "on_enter"
    /\ r \in on_enter(current_target, context)
    /\ r.kind = "Transition" => Room(2)
    /\ context' = on_enter_ctx(current_target, context)
    /\ LET tr == Returned(trace, r) IN
       CASE EnterArm(r) = "Handled" ->
              /\ Return(Ok, tr)
              /\ UNCHANGED <<current_state, current_target, previous_state>>
         [] EnterArm(r) = "Transition" ->
              /\ transition_to(NextTarget(r.arg, current_target), tr)
         [] EnterArm(r) = "Error" ->
              /\ Return(StateInvalid(current_target, r.arg), tr)
              /\ current_state' = SlotOnEnterError(current_state, previous_state)
              /\ UNCHANGED <<current_target, previous_state>>
         [] OTHER ->
              /\ Return(OnEnterSuper(current_target), tr)
              /\ UNCHANGED <<current_state, current_target, previous_state>>
    /\ entered' = [state |-> current_target, kind |-> r.kind]
    /\ UNCHANGED <<initial_state, call, event, active, pre, build, timeout, followed,
                   tasks, queries>>

\* the body of StateMachine::init up to its first suspension (fsm.rs:160-161)
Begin_init(state) ==
    /\ WithinBounds("init", state)
    /\ initial_state' = state
    /\ call' = "init"
    /\ pre' = current_state
    /\ transition_to(state, <<>>)
    /\ timeout' = NoTimeout
    /\ followed' = Follow("init", state)
    /\ UNCHANGED <<context, event, active, build, entered, queries>>

\* StateMachine::init (fsm.rs:159-162) called by the host that owns the
\* engine: &mut self admits the call only when no other call is alive
init(state) ==
    /\ pc = "idle"
    /\ Exclusive(queries)
    /\ Begin_init(state)
    /\ UNCHANGED tasks

----------------------------------------------------------------------------
(* process_event *)

\* variant: the error names the current state, not the state looked up
MissingActive_NamesCurrent(s, cur) == StateNotRegistered(cur)

\* variant: a current state without handler is taken for no current state
MissingActive_Uninitialized(s, cur) == StateMachineNotInitialized

\* fsm.rs:262: the error of a delegation state absent from the registry
MissingActive(s, cur) == StateNotRegistered(s)

\* fsm.rs:259-265: look the active state up and invoke its on_event
Dispatch(s, tr) ==
    IF s \in states
    THEN Invoke("on_event", s, tr)
    ELSE Return(MissingActive(s, current_state), tr)

\* variant: the error names the state that was current, not the one reached
Unhandled_NamesCurrent(act, cur) == InvalidEvent(cur, UnhandledMsg)

\* fsm.rs:284-287: the error of an exhausted delegation chain
Unhandled(act, cur) == InvalidEvent(act, UnhandledMsg)

\* variant: the error names the state that was current, not the one that failed
EventError_NamesCurrent(act, cur, m) == InvalidEvent(cur, m)

\* fsm.rs:291-293: the error of an on_event that answered Error
EventError(act, cur, m) == InvalidEvent(act, m)

\* variant: a Transition answered by on_event is dropped like Handled
EventArm_TransitionIgnored(r) == IF r.kind = "Transition" THEN "Handled" ELSE r.kind

\* variant: Handled falls into the Transition arm
EventArm_HandledTransitions(r) == IF r.kind = "Handled" THEN "Transition" ELSE r.kind

\* variant: a Transition to the state that is current already changes nothing
EventArm_SelfIsHandled(r) ==
    IF r.kind = "Transition" /\ r.arg = current_state THEN "Handled" ELSE r.kind

\* fsm.rs:266-293: the arm of the match an on_event response takes
EventArm(r) == r.kind

\* variant: the climb stops when it would come back to where it started
Parent_StopsAtStart(act, start) ==
    IF superstate_fn(act) = start THEN None ELSE superstate_fn(act)

\* fsm.rs:273: the parent the delegation loop climbs to from act; the state
\* the loop started in plays no part
Parent(act, start) == superstate_fn(act)

\* variant: climbing to the parent moves the current-state slot with it
SlotOnSuper_Parent(cur, parent) == parent

\* fsm.rs:258, 277: delegation moves the local copy only, never the slot
SlotOnSuper(cur, parent) == cur

\* variant: the engine does not notice that init was never called
Uninitialized_Never(cur) == FALSE

\* fsm.rs:253-256: the current-state slot is empty
Uninitialized(cur) == cur = None

\* the body of StateMachine::process_event up to its first suspension
\* (fsm.rs:253-265)
Begin_process_event(e) ==
    /\ WithinBounds("process_event", e)
    /\ call' = "process_event"
    /\ event' = e
    /\ pre' = current_state
    /\ IF Uninitialized(current_state)
       THEN /\ Return(StateMachineNotInitialized, <<>>)
            /\ UNCHANGED active
       ELSE /\ active' = current_state
            /\ Dispatch(current_state, <<>>)
    /\ timeout' = NoTimeout
    /\ followed' = Follow("process_event", e)
    /\ UNCHANGED <<current_state, initial_state, context, current_target,
                   previous_state, build, entered, queries>>

\* StateMachine::process_event (fsm.rs:252-296) called by the host that
\* owns the engine: &mut self admits the call only when no other call is alive
process_event(e) ==
    /\ pc = "idle"
    /\ Exclusive(queries)
    /\ Begin_process_event(e)
    /\ UNCHANGED tasks

\* on_event of the active state returns r (fsm.rs:265-294)
OnEventReturns(r) ==
    /\ pc = "on_event"
    /\ r \in on_event(active, event, context)
    /\ r.kind = "Transition" => Room(2)
    /\ (r.kind = "Super" /\ Parent(active, pre) # None) => Room(1)
    /\ context' = on_event_ctx(active, event, context)
    /\ LET tr == Returned(trace, r) IN
       CASE EventArm(r) = "Handled" ->
              /\ Return(Ok, tr)
              /\ UNCHANGED <<current_state, active, current_target, previous_state>>
         [] EventArm(r) = "Transition" ->
              /\ transition_to(r.arg, tr)
              /\ UNCHANGED active
         [] EventArm(r) = "Super" ->
              /\ IF Parent(active, pre) # None
                 THEN /\ active' = Parent(active, pre)
                      /\ current_state' = SlotOnSuper(current_state, Parent(active, pre))
                      /\ Dispatch(Parent(active, pre), tr)
                 ELSE /\ Return(Unhandled(active, current_state), tr)
                      /\ UNCHANGED <<active, current_state>>
              /\ UNCHANGED <<current_target, previous_state>>
         [] OTHER ->
              /\ Return(EventError(active, current_state, r.arg), tr)
              /\ UNCHANGED <<current_state, active, current_target, previous_state>>
    /\ UNCHANGED <<initial_state, call, event, pre, build, timeout, followed,
                   tasks, entered, queries>>

----------------------------------------------------------------------------
(* The host *)

\* StateMachine::context_mut (fsm.rs:309-311): the host writes c to the
\* context through the &mut CTX it is handed
context_mut(c) ==
    /\ pc = "idle"
    /\ Exclusive(queries)
    /\ WithinBounds("context_mut", c)
    /\ context' = c
    /\ call' = "context_mut"
    /\ followed' = Left
    /\ UNCHANGED <<current_state, initial_state, pc, event, active,
                   current_target, previous_state, result, pre, trace, lastHook,
                   build, timeout, tasks, entered, queries>>

\* variant: the query answers from the context the engine was built with
QueryTimeout_Stale(cur, ctx) ==
    IF cur # None /\ cur \in states THEN get_timeout(cur, InitialContext) ELSE NoTimeout

\* variant: a state without a timeout inherits the one of its superstate
QueryTimeout_Inherits(cur, ctx) ==
    IF cur # None /\ cur \in states
    THEN IF get_timeout(cur, ctx) = NoTimeout /\ superstate_fn(cur) # None
         THEN get_timeout(superstate_fn(cur), ctx)
         ELSE get_timeout(cur, ctx)
    ELSE NoTimeout

\* fsm.rs:166-171: the answer of the query for current state cur
QueryTimeout(cur, ctx) ==
    IF cur # None /\ cur \in states THEN get_timeout(cur, ctx) ELSE NoTimeout

\* fsm.rs:166-167: the slot holds a state that has a handler
Queryable(cur) == cur # None /\ cur \in states

\* the body of StateMachine::get_current_timeout up to the await of
\* get_timeout (fsm.rs:166-168); it returns None without a hook when the
\* slot is empty or holds a state without handler
Begin_get_current_timeout ==
    /\ queries < MaxQueries
    /\ IF Queryable(current_state)
       THEN /\ queries' = queries + 1
            /\ UNCHANGED <<call, timeout>>
       ELSE /\ call' = "get_current_timeout"
            /\ timeout' = QueryTimeout(current_state, context)
            /\ UNCHANGED queries
    /\ UNCHANGED <<current_state, initial_state, context, pc, event, active,
                   current_target, previous_state, result, pre, trace, lastHook,
                   build, followed, entered>>

\* StateMachine::get_current_timeout (fsm.rs:165-172) called by the host
\* that owns the engine; it borrows the engine shared, so the host may start
\* it while other queries are suspended, but not while a call that borrows
\* the engine mutably is in progress
get_current_timeout ==
    /\ pc = "idle"
    /\ Begin_get_current_timeout
    /\ UNCHANGED tasks

\* get_timeout of the current state returns to one of the suspended queries
\* (fsm.rs:168)
GetTimeoutReturns ==
    /\ queries > 0
    /\ queries' = queries - 1
    /\ call' = "get_current_timeout"
    /\ timeout' = QueryTimeout(current_state, context)
    /\ UNCHANGED <<current_state, initial_state, context, pc, event, active,
                   current_target, previous_state, result, pre, trace, lastHook,
                   build, followed, tasks, entered>>

\* the host drops the future of the call in flight while a hook is suspended
Cancelled == [kind |-> "Cancelled", state |-> "", msg |-> ""]

\* history mark of a state whose on_exit was invoked and dropped with its call
ExitDropped == "on_exit_dropped"

\* the host drops a query suspended in get_timeout
CancelQuery ==
    /\ queries > 0
    /\ queries' = queries - 1
    /\ UNCHANGED <<current_state, initial_state, context, pc, call, event, active,
                   current_target, previous_state, result, pre, trace, lastHook,
                   build, timeout, followed, tasks, entered>>

Cancel ==
    /\ pc # "idle"
    /\ pc' = "idle"
    /\ result' = Cancelled
    /\ lastHook' = IF pc = "on_exit"
                   THEN [lastHook EXCEPT ![trace[Len(trace)].state] = ExitDropped]
                   ELSE lastHook
    /\ UNCHANGED <<current_state, initial_state, context, call, event, active,
                   current_target, previous_state, pre, trace,
                   build, timeout, followed, tasks, entered, queries>>

----------------------------------------------------------------------------

\* variant: the constructor enters a state on its own
NewSlot_Eager == "Root"

\* fsm.rs:147: the current-state slot of a new engine
NewSlot == None

\* StateMachine::new (fsm.rs:140-156) on the registry and resolver of build b
Built(b) ==
    /\ build = b
    /\ current_state = NewSlot
    /\ initial_state = None
    /\ context = InitialContext
    /\ pc = "idle"
    /\ call = "none"
    /\ event = "Enter"
    /\ active = None
    /\ current_target = None
    /\ previous_state = None
    /\ result = NoResult
    /\ pre = None
    /\ trace = <<>>
    /\ lastHook = [s \in states |-> "none"]
    /\ timeout = NoTimeout
    /\ followed = 0
    /\ tasks = [t \in Tasks |-> "waiting"]
    /\ entered = [state |-> None, kind |-> "none"]
    /\ queries = 0

Init == Built("tree")

Next ==
    \/ \E s \in Ids : init(s)
    \/ \E e \in Events : process_event(e)
    \/ OnExitReturns
    \/ \E r \in Response : OnEnterReturns(r)
    \/ \E r \in Response : OnEventReturns(r)
    \/ \E c \in HostContexts : context_mut(c)
    \/ get_current_timeout
    \/ GetTimeoutReturns
    \/ CancelQuery

Spec == Init /\ [][Next]_vars

\* the engine built without a resolver
InitFlat == Built("flat")

SpecFlat == InitFlat /\ [][Next]_vars

\* the engine with a state whose on_enter always transitions
InitRedirect == Built("redirect")

SpecRedirect == InitRedirect /\ [][Next]_vars

\* the engine with a cyclic hierarchy and on_enter loops
InitLoop == Built("loop")

SpecLoop == InitLoop /\ [][Next]_vars

\* the engine whose resolver names a parent that has no handler
InitOrphan == Built("orphan")

SpecOrphan == InitOrphan /\ [][Next]_vars

\* the engine of the unit tests
InitUi == Built("ui")

SpecUi == InitUi /\ [][Next]_vars

\* an engine for which the host registered Menu twice
InitReplaced == Built("replaced")

SpecReplaced == InitReplaced /\ [][Next]_vars

\* the engine of the device tests
InitDevice == Built("device")

SpecDevice == InitDevice /\ [][Next]_vars

\* --- the engine of the device tests behind tokio::sync::Mutex, shared by
\* --- the tasks of test_concurrent_operations (integration_tests.rs:299-337)

\* variant: the lock is handed out while another task holds it
LockFree_Always(tk) == TRUE

\* Mutex::lock resolves only when no task holds the guard; a task holds it
\* between its calls ("locked") and while it awaits a call ("calling")
LockFree(tk) == \A t \in Tasks : tk[t] \notin {"locked", "calling"}

\* the tasks the test body spawns
Spawned == Tasks \ {"main"}

\* tokio::join! has returned: both spawned tasks are over
Joined(tk) == \A t \in Spawned : tk[t] = "done"

\* task t obtains the guard; the two tasks are spawned after the test body
\* has initialized the engine and dropped its guard, and the test body
\* locks a second time after it has joined them (integration_tests.rs:335)
Acquire(t) ==
    /\ IF t = "main"
       THEN \/ tasks[t] = "waiting"
            \/ tasks[t] = "joining" /\ Joined(tasks)
       ELSE tasks[t] = "waiting" /\ tasks["main"] = "joining"
    /\ LockFree(tasks)
    /\ tasks' = [tasks EXCEPT ![t] = "locked"]
    /\ UNCHANGED <<current_state, initial_state, context, pc, call, event, active,
                   current_target, previous_state, result, pre, trace, lastHook,
                   build, timeout, followed, entered, queries>>

\* task t, not awaiting a call, drops the guard; the test body drops its
\* first guard only if its init(..).unwrap() did not panic and then spawns
\* and joins the tasks, and is over when it drops its second guard
Release(t) ==
    /\ tasks[t] = "locked"
    /\ (t = "main" /\ ~Joined(tasks)) => (call = "init" /\ result = Ok)
    /\ tasks' = [tasks EXCEPT ![t] = IF t = "main" /\ ~Joined(tasks)
                                     THEN "joining" ELSE "done"]
    /\ UNCHANGED <<current_state, initial_state, context, pc, call, event, active,
                   current_target, previous_state, result, pre, trace, lastHook,
                   build, timeout, followed, entered, queries>>

\* the call task t awaits has returned: no hook is suspended any more, and
\* the task goes on with the guard in hand
Resume(t) ==
    /\ tasks[t] = "calling"
    /\ pc = "idle"
    /\ queries = 0
    /\ tasks' = [tasks EXCEPT ![t] = "locked"]
    /\ UNCHANGED <<current_state, initial_state, context, pc, call, event, active,
                   current_target, previous_state, result, pre, trace, lastHook,
                   build, timeout, followed, entered, queries>>

\* integration_tests.rs:308-311: the test body initializes the engine
\* through its guard, which is what lends it the engine mutably
MainInit ==
    /\ tasks["main"] = "locked"
    /\ call = "none"
    /\ Begin_init("Standby")
    /\ tasks' = [tasks EXCEPT !["main"] = "calling"]

\* integration_tests.rs:317-318: the events sent through the guard
Task1Events == {"Activate", "Deactivate"}

\* integration_tests.rs:314-320: a spawned task sends an event through its
\* guard (task1 in the test; either spawned task here, so that
\* process_event calls of two tasks compete for the engine)
TaskEvent(t, e) ==
    /\ tasks[t] = "locked"
    /\ Begin_process_event(e)
    /\ tasks' = [tasks EXCEPT ![t] = "calling"]

\* integration_tests.rs:323-329: a spawned task queries the timeout through
\* its guard (task2 in the test; either spawned task here)
TaskQuery(t) ==
    /\ tasks[t] = "locked"
    /\ Begin_get_current_timeout
    /\ tasks' = [tasks EXCEPT ![t] = "calling"]

NextShared ==
    \/ \E t \in Tasks : Acquire(t)
    \/ \E t \in Tasks : Release(t)
    \/ \E t \in Tasks : Resume(t)
    \/ MainInit
    \/ \E t \in Spawned, e \in Task1Events : TaskEvent(t, e)
    \/ \E t \in Spawned : TaskQuery(t)
    \/ GetTimeoutReturns
    \/ OnExitReturns
    \/ \E r \in Response : OnEnterReturns(r)
    \/ \E r \in Response : OnEventReturns(r)

SpecShared == InitDevice /\ [][NextShared]_vars

\* a host that makes only the calls that borrow the engine mutably, one at
\* a time: no query is alive while one of them is in progress
NextMoving ==
    \/ \E s \in Ids : init(s)
    \/ \E e \in Events : process_event(e)
    \/ OnExitReturns
    \/ \E r \in Response : OnEnterReturns(r)
    \/ \E r \in Response : OnEventReturns(r)
    \/ \E c \in HostContexts : context_mut(c)

\* the same engine with handlers whose on_event always returns
SpecReturning ==
    Init /\ [][NextMoving]_vars /\ WF_vars(\E r \in Response : OnEventReturns(r))

\* the same engine under a host that may drop a call at any suspension point
NextCancel == NextMoving \/ Cancel

SpecCancel == Init /\ [][NextCancel]_vars

----------------------------------------------------------------------------
(* Observations on the history of a call *)

\* the on_enter invocations of the call, in order
Enters(tr) == SelectSeq(tr, LAMBDA h : h.hook = "on_enter")

\* a call has returned (it was not dropped) and none is in flight
Completed == pc = "idle" /\ call # "none" /\ result # Cancelled

\* the positions of the trace holding hook h
At(h) == {i \in DOMAIN trace : trace[i].hook = h}

\* the last entry of a non-empty trace
Last(tr) == tr[Len(tr)]

----------------------------------------------------------------------------
(* Claims *)

\* C1: when init(s0) returns Ok the on_enter hooks it ran form a chain that
\* starts at s0, each one but the last answered Transition to the next, the
\* last answered Handled, and the current state is the state of that last
\* on_enter; so the current state is s0 when s0's on_enter answered Handled.
C1_InitSettles ==
    (Completed /\ call = "init" /\ result = Ok) =>
        LET en == Enters(trace) IN
        /\ Len(en) >= 1
        /\ en[1].state = initial_state
        /\ \A i \in 1..(Len(en) - 1) : en[i].resp = Transition(en[i + 1].state)
        /\ Last(en).resp = Handled
        /\ current_state = Last(en).state
        /\ en[1].resp = Handled => current_state = initial_state

\* an init that settled two transitions away from the state it was given
C1_Witness ==
    /\ Completed /\ call = "init" /\ result = Ok
    /\ Len(Enters(trace)) >= 3
    /\ current_state # initial_state

\* C2: once an on_event of a process_event call has answered Handled (the
\* current state's or an ancestor's), the call has returned Ok, the current
\* state is the one it was before the call, and the call has invoked no
\* on_exit and no on_enter.
C2_HandledIsFrame ==
    (call = "process_event"
        /\ \E i \in At("on_event") : trace[i].resp = Handled) =>
        /\ pc = "idle"
        /\ result = Ok
        /\ current_state = pre
        /\ At("on_exit") = {} /\ At("on_enter") = {}

\* an event the grandparent of the current state handled
C2_Witness ==
    /\ Completed /\ call = "process_event" /\ result = Ok
    /\ Len(trace) = 3
    /\ Last(trace).hook = "on_event" /\ Last(trace).resp = Handled
    /\ Last(trace).state # pre

\* C3: the hooks of one process_event call run in one order: on_event of the
\* state that was current, then on_event of each ancestor after a Super; after
\* an on_event answered Transition, on_exit of the state that was current and
\* on_enter of the target; after an on_enter answered Transition, on_exit of
\* the state just entered and on_enter of its successor.  No on_event follows
\* an on_exit and every on_enter comes right after an on_exit.
C3_HookOrder ==
    call = "process_event" =>
        /\ \A i \in DOMAIN trace :
            LET h == trace[i] IN
            /\ i = 1 => (h.hook = "on_event" /\ h.state = pre)
            /\ (h.hook = "on_event" /\ i > 1) =>
                   /\ trace[i - 1].hook = "on_event"
                   /\ trace[i - 1].resp = Super
                   /\ h.state = superstate_fn(trace[i - 1].state)
            /\ h.hook = "on_exit" =>
                   /\ i > 1
                   /\ trace[i - 1].resp.kind = "Transition"
                   /\ \/ trace[i - 1].hook = "on_event" /\ h.state = pre
                      \/ trace[i - 1].hook = "on_enter" /\ h.state = trace[i - 1].state
            /\ h.hook = "on_enter" =>
                   /\ i > 2
                   /\ trace[i - 1].hook = "on_exit"
                   /\ trace[i - 1].resp = Unit
                   /\ trace[i - 2].resp = Transition(h.state)
            /\ i < Len(trace) => h.resp # Pending
        /\ (Completed /\ result = Ok) => Last(trace).resp = Handled

\* a call that climbed to an ancestor, transitioned, and was sent on by on_enter
C3_Witness ==
    /\ Completed /\ call = "process_event" /\ result = Ok
    /\ Len(trace) = 6
    /\ trace[2].hook = "on_event"
    /\ trace[4].hook = "on_enter" /\ trace[4].resp.kind = "Transition"
    /\ trace[6].hook = "on_enter"

\* C4: the identifier in the current-state slot, when there is one, is a key
\* of the registry.
C4_SlotRegistered == current_state # None => current_state \in states

\* C5 as stated: a call dropped while a hook is suspended leaves the current
\* state as it was before the call.
C5_CancelRestores == result = Cancelled => current_state = pre

\* C5 amended: a call dropped while a hook is suspended leaves the current
\* state as it was before the call if the call has invoked no on_enter, and
\* otherwise leaves it at the state whose on_enter was invoked last.
C5_CancelKeepsProgress ==
    result = Cancelled =>
        current_state = IF At("on_enter") = {} THEN pre
                        ELSE Last(Enters(trace)).state

\* a call dropped inside the on_enter of a state other than the previous one
C5_Witness ==
    /\ result = Cancelled
    /\ Last(trace).hook = "on_enter" /\ Last(trace).resp = Pending
    /\ pre # None
    /\ current_state = Last(trace).state
    /\ current_state # pre

\* the registry lookups of the call that found nothing
LookupFailed ==
    \/ pre # None /\ pre \notin states
    \/ call = "init" /\ initial_state \notin states
    \/ \E i \in DOMAIN trace :
          trace[i].resp.kind = "Transition" /\ trace[i].resp.arg \notin states

\* C6: a call in which a registry lookup failed returns StateNotRegistered
\* naming an identifier absent from the registry.
C6_NoLookupSkipped ==
    (Completed /\ LookupFailed) =>
        (result.kind = "StateNotRegistered" /\ result.state \notin states)

\* C7 as stated: after a call that returned Ok the current state is a
\* registered state whose on_enter has been invoked since its on_exit was
\* last invoked.
C7_EnteredSinceExit ==
    (Completed /\ result = Ok) =>
        (current_state \in states /\ lastHook[current_state] = "on_enter")

\* C7 (amended): after a call that returned Ok the current state is a
\* registered state whose on_enter has been invoked since its on_exit was
\* last invoked, unless the last on_exit invoked on it was dropped with its
\* call; the Ok call has then invoked no on_enter and no on_exit, and found
\* the state current.
C7_EnteredSinceExitUnlessDropped ==
    (Completed /\ result = Ok) =>
        /\ current_state \in states
        /\ lastHook[current_state] \in {"on_enter", ExitDropped}
        /\ lastHook[current_state] = ExitDropped =>
              /\ call # "init"
              /\ At("on_enter") = {} /\ At("on_exit") = {}
              /\ call = "process_event" => pre = current_state

\* an Ok call that came back to a state it had exited before
C7_Witness ==
    /\ Completed /\ result = Ok /\ call = "process_event"
    /\ At("on_exit") # {}
    /\ \E i \in At("on_exit") : trace[i].state = current_state
    /\ lastHook[current_state] = "on_enter"

\* C8: once the on_enter of a target has answered Error(msg), it is the last
\* hook of the call, the call has returned StateInvalid(target, msg), the
\* current state is the target, and the on_exit of the state that was left
\* ran to completion right before it.
C8_EnterErrorNoRollback ==
    \A i \in At("on_enter") :
        trace[i].resp.kind = "Error" =>
            /\ i = Len(trace)
            /\ pc = "idle"
            /\ result = StateInvalid(trace[i].state, trace[i].resp.arg)
            /\ current_state = trace[i].state
            /\ ExitNeeded(previous_state) =>
                   /\ i > 1
                   /\ trace[i - 1] = [hook |-> "on_exit", state |-> previous_state,
                                      resp |-> Unit]

\* an event moved the engine from one state into a target whose on_enter failed
C8_Witness ==
    /\ Completed /\ call = "process_event"
    /\ result.kind = "StateInvalid"
    /\ Last(trace).hook = "on_enter" /\ Last(trace).resp.kind = "Error"
    /\ pre \in states /\ current_state # pre
    /\ \E i \in At("on_exit") : trace[i].state = pre

\* C9: once an on_event has answered Error(msg), it is the last hook of the
\* call, the call has returned InvalidEvent naming the state whose handler
\* answered, the current state is the one before the call, and the call has
\* invoked no on_exit and no on_enter.
C9_EventErrorKeepsState ==
    \A i \in At("on_event") :
        trace[i].resp.kind = "Error" =>
            /\ i = Len(trace)
            /\ pc = "idle"
            /\ result = InvalidEvent(trace[i].state, trace[i].resp.arg)
            /\ current_state = pre
            /\ At("on_exit") = {} /\ At("on_enter") = {}

\* an ancestor of the current state answered Error
C9_Witness ==
    /\ Completed /\ call = "process_event"
    /\ Len(trace) >= 2
    /\ Last(trace).hook = "on_event" /\ Last(trace).resp.kind = "Error"
    /\ result.kind = "InvalidEvent" /\ result.state # pre

\* C10: once a state without superstate has answered Super, the call has
\* returned InvalidEvent naming that state, the last of the delegation chain.
C10_ExhaustedNamesLast ==
    \A i \in At("on_event") :
        (trace[i].resp = Super /\ superstate_fn(trace[i].state) = None) =>
            /\ i = Len(trace)
            /\ pc = "idle"
            /\ result = InvalidEvent(trace[i].state, UnhandledMsg)
            /\ \A j \in 1..i : trace[j].hook = "on_event"
            /\ \A j \in 1..(i - 1) : trace[j].resp = Super

\* a chain of three states that all answered Super
C10_Witness ==
    /\ Completed /\ call = "process_event"
    /\ Len(trace) = 3
    /\ \A j \in 1..3 : trace[j].resp = Super
    /\ result.kind = "InvalidEvent" /\ result.state = "Root" /\ pre = "Display"

\* C11: in an engine built without a resolver, once the on_event of the
\* current state has answered Super it is the only hook of the call, the call
\* has returned InvalidEvent naming the current state, and the current state
\* is the one it was before the call.
C11_FlatSuperIsInvalid ==
    build = "flat" =>
        \A i \in At("on_event") :
            trace[i].resp = Super =>
                /\ Len(trace) = 1
                /\ trace[1].state = pre
                /\ pc = "idle"
                /\ result = InvalidEvent(pre, UnhandledMsg)
                /\ current_state = pre

\* without a resolver, Super from a state that the test resolver gives a parent
C11_Witness ==
    /\ build = "flat"
    /\ Completed /\ call = "process_event"
    /\ Len(trace) = 1 /\ trace[1].resp = Super
    /\ pre = "Display" /\ TestResolver(pre) # None
    /\ result.kind = "InvalidEvent"

\* C12: a process_event made while the current-state slot is empty returns
\* StateMachineNotInitialized at once, with no hook invoked, the slot still
\* empty and the context as it was.
C12_UninitializedRejected ==
    [][(pc = "idle" /\ current_state = None /\ call' = "process_event") =>
          /\ pc' = "idle"
          /\ result' = StateMachineNotInitialized
          /\ trace' = <<>>
          /\ lastHook' = lastHook
          /\ current_state' = None
          /\ context' = context]_vars

\* an event was sent to an engine that was never initialized
C12_Witness ==
    /\ Completed /\ call = "process_event"
    /\ result = StateMachineNotInitialized
    /\ current_state = None /\ initial_state = None
    /\ trace = <<>>

\* C13: once the on_enter of a target has answered Super, it is the last hook
\* of the call (no hook of a superstate follows) and the call has returned
\* OnEnterSuper naming the target.
C13_EnterSuperRejected ==
    \A i \in At("on_enter") :
        trace[i].resp = Super =>
            /\ i = Len(trace)
            /\ pc = "idle"
            /\ result = OnEnterSuper(trace[i].state)

\* the on_enter of a state that has a superstate answered Super
C13_Witness ==
    /\ Completed /\ call = "process_event"
    /\ result.kind = "OnEnterSuper"
    /\ Last(trace).hook = "on_enter" /\ Last(trace).resp = Super
    /\ superstate_fn(Last(trace).state) # None

\* C14: a transition whose target is absent from the registry (asked by init,
\* by an on_event or by an on_enter) runs one hook, the on_exit of the state
\* that was current, and then returns StateNotRegistered naming the target;
\* no hook of the target runs.
C14_MissingTargetFails ==
    /\ \A i \in DOMAIN trace :
          (trace[i].resp.kind = "Transition" /\ trace[i].resp.arg \notin states) =>
              /\ Len(trace) = i + 1
              /\ trace[i + 1].hook = "on_exit"
              /\ trace[i + 1].state =
                     (IF trace[i].hook = "on_enter" THEN trace[i].state ELSE pre)
              /\ \/ pc = "on_exit" /\ trace[i + 1].resp = Pending
                 \/ /\ pc = "idle"
                    /\ trace[i + 1].resp = Unit
                    /\ result = StateNotRegistered(trace[i].resp.arg)
              /\ \A j \in DOMAIN trace : trace[j].state # trace[i].resp.arg
    /\ (call = "init" /\ initial_state \notin states) =>
          /\ Len(trace) <= 1
          /\ \A j \in DOMAIN trace : trace[j].hook = "on_exit" /\ trace[j].state = pre
          /\ pc \in {"idle", "on_exit"}
          /\ pc = "idle" =>
                /\ result = StateNotRegistered(initial_state)
                /\ (trace # <<>>) = ExitNeeded(pre)

\* an on_enter sent the engine on to an identifier that is not registered
C14_Witness ==
    /\ Completed /\ call = "process_event"
    /\ result.kind = "StateNotRegistered"
    /\ Len(trace) >= 4
    /\ trace[Len(trace) - 1].hook = "on_enter"
    /\ trace[Len(trace) - 1].resp.kind = "Transition"
    /\ Last(trace).hook = "on_exit"
    /\ current_state = result.state

\* C15: once an on_event of a process_event call (the current state's or an
\* ancestor's) has answered Transition(next), the transition protocol runs
\* towards next, and the call returns what the protocol ends with: Ok with the
\* state whose on_enter answered Handled current, StateInvalid or OnEnterSuper
\* naming the state whose on_enter answered Error or Super, or
\* StateNotRegistered naming the target that was missing.
C15_TransitionOutcome ==
    call = "process_event" =>
        \A i \in At("on_event") :
            trace[i].resp.kind = "Transition" =>
                /\ Len(trace) > i
                /\ trace[i + 1].hook = "on_exit" /\ trace[i + 1].state = pre
                /\ Len(trace) > i + 1 =>
                      /\ trace[i + 2].hook = "on_enter"
                      /\ trace[i + 2].state = trace[i].resp.arg
                /\ pc = "idle" =>
                      LET l == Last(trace) IN
                      CASE l.hook = "on_enter" /\ l.resp = Handled ->
                             result = Ok /\ current_state = l.state
                        [] l.hook = "on_enter" /\ l.resp.kind = "Error" ->
                             result = StateInvalid(l.state, l.resp.arg)
                        [] l.hook = "on_enter" /\ l.resp = Super ->
                             result = OnEnterSuper(l.state)
                        [] l.hook = "on_exit" /\ l.resp = Unit ->
                             result = StateNotRegistered(trace[Len(trace) - 1].resp.arg)
                        [] OTHER -> FALSE

\* an ancestor answered Transition and the protocol ended in an on_enter error
C15_Witness ==
    /\ Completed /\ call = "process_event"
    /\ result.kind = "StateInvalid"
    /\ Len(trace) >= 4
    /\ trace[2].hook = "on_event" /\ trace[2].resp.kind = "Transition"

\* C16: when the on_event of a state A answered Super and the on_event of its
\* superstate B then answered Handled, the call returned Ok and the context
\* ends with the mark A's handler left followed by the mark B's handler left.
C16_DelegationKeepsMutations ==
    (Completed /\ call = "process_event") =>
        \A i \in At("on_event") :
            (i > 1 /\ trace[i].resp = Handled /\ trace[i - 1].resp = Super) =>
                /\ result = Ok
                /\ trace[i].state = superstate_fn(trace[i - 1].state)
                /\ Len(context) >= 2
                /\ context[Len(context) - 1] = trace[i - 1].state
                /\ context[Len(context)] = trace[i].state

\* Display delegated to Settings, which handled the event
C16_Witness ==
    /\ Completed /\ call = "process_event" /\ result = Ok
    /\ Len(trace) = 2
    /\ trace[1].state = "Display" /\ trace[1].resp = Super
    /\ trace[2].state = "Settings" /\ trace[2].resp = Handled
    /\ context = <<"Display", "Settings">>

\* C17: in the engine whose Volume handler answers every on_enter with
\* Transition(Root), no init or process_event call returns Ok with Volume as
\* the current state; every on_enter of Volume is answered Transition(Root)
\* and is followed by on_exit of Volume and then by on_enter of Root, and a
\* call that returns Ok having entered Volume settles in the state whose
\* on_enter closed the chain started at Root.
C17_RedirectNeverSettles ==
    /\ \A i \in At("on_enter") :
         trace[i].state = "Volume" =>
           /\ trace[i].resp \in {Pending, Transition("Root")}
           /\ Len(trace) >= i + 1 =>
                /\ trace[i + 1].hook = "on_exit"
                /\ trace[i + 1].state = "Volume"
           /\ Len(trace) >= i + 2 =>
                /\ trace[i + 2].hook = "on_enter"
                /\ trace[i + 2].state = "Root"
    /\ (Completed /\ call \in {"init", "process_event"} /\ result = Ok) =>
         /\ current_state # "Volume"
         /\ \A i \in At("on_enter") :
              trace[i].state = "Volume" =>
                /\ Len(trace) >= i + 2
                /\ current_state = Last(trace).state
                /\ Last(trace).hook = "on_enter"
                /\ Last(trace).resp = Handled

\* a process_event call was sent to Volume by its handler, went on to Root
\* and settled there
C17_Witness ==
    /\ Completed /\ call = "process_event" /\ result = Ok
    /\ build = "redirect"
    /\ \E i \in At("on_enter") :
         /\ trace[i].state = "Volume"
         /\ i > 1 /\ trace[i - 1].hook = "on_exit"
         /\ trace[i + 2].resp = Handled
    /\ current_state = "Root"

\* C18: in the engine of the unit tests, a timeout query made while Menu is
\* the current state answers from the context as it is at the query: 5 s
\* when value is above 5 and 10 s otherwise, whatever events were handled
\* since the last transition.
C18_TimeoutFollowsContext ==
    (build = "ui" /\ call = "get_current_timeout" /\ current_state = "Menu") =>
        timeout = IF context.value > 5 THEN Some(5) ELSE Some(10)

\* the last call before the query was an Up event that Menu handled without
\* a transition, raising value from 5 to 6, and the query answered 5 s
C18_Witness ==
    /\ build = "ui" /\ call = "get_current_timeout"
    /\ current_state = "Menu"
    /\ context.value = 6
    /\ event = "Up"
    /\ trace = <<[hook |-> "on_event", state |-> "Menu", resp |-> Handled]>>
    /\ timeout = Some(5)

\* C19: a timeout query changes neither the current state nor the context;
\* it answers no timeout when the engine is uninitialized or when the
\* handler of the current state gives none, whatever the handlers of the
\* ancestors of the current state give.
C19_TimeoutOwnHandlerOnly ==
    [][ (call' = "get_current_timeout" \/ queries' # queries) =>
          /\ current_state' = current_state
          /\ context' = context
          /\ (/\ call' = "get_current_timeout"
              /\ \/ current_state = None
                 \/ get_timeout(current_state, context) = NoTimeout)
               => timeout' = NoTimeout ]_vars

\* the query was made in Settings, which gives no timeout while its
\* superstate Root gives 30 s
C19_Witness ==
    /\ build = "ui" /\ call = "get_current_timeout"
    /\ current_state = "Settings"
    /\ get_timeout(superstate_fn("Settings"), context) = Some(30)
    /\ timeout = NoTimeout

\* the current states test_device_lifecycle asserts, call by call
Expected == <<"Off", "Standby", "Active", "Error", "Standby", "Off">>

\* the power levels test_device_lifecycle asserts, call by call
ExpectedPower == <<0, 25, 100, 10, 25, 0>>

\* C20: in the device engine, when the host has so far made exactly the
\* calls init(Off), PowerOn, Activate, ErrorOccurred, Reset, PowerOff in
\* this order, the call just returned gave Ok, the current state is the
\* one the scenario lists for it (Off, Standby, Active, Error, Standby,
\* Off), and from the ErrorOccurred step on the error count is 1.
C20_DeviceLifecycle ==
    (/\ build = "device" /\ pc = "idle"
     /\ call \in {"init", "process_event"}
     /\ followed \in 1..Len(Scenario)) =>
        /\ result = Ok
        /\ current_state = Expected[followed]
        /\ context.power_level = ExpectedPower[followed]
        /\ context.error_count = IF followed >= 4 THEN 1 ELSE 0

\* the host has gone through the whole scenario
C20_Witness ==
    /\ build = "device" /\ pc = "idle" /\ call = "process_event"
    /\ followed = Len(Scenario)
    /\ event = "PowerOff"
    /\ current_state = "Off"
    /\ context.error_count = 1
    /\ result = Ok

\* C21: as long as the host has not called init, the current state is empty,
\* no call is suspended in a hook, no on_enter, on_exit, on_event or
\* get_timeout has been invoked, and the context is the one the engine was
\* built with or one the host wrote itself.
C21_NothingBeforeInit ==
    initial_state = None =>
        /\ current_state = None
        /\ pc = "idle"
        /\ trace = <<>>
        /\ \A s \in states : lastHook[s] = "none"
        /\ queries = 0
        /\ context \in {InitialContext} \cup HostContexts

\* the host sent an event and then asked for the timeout, without any init
C21_Witness ==
    /\ initial_state = None
    /\ call = "get_current_timeout"
    /\ result = StateMachineNotInitialized
    /\ timeout = NoTimeout
    /\ current_state = None

\* the hooks of the call in progress that have been invoked and have not
\* returned; the hook of a call the host dropped went with the call, its
\* entry in the trace stays without response
InFlight ==
    IF pc = "idle" THEN {} ELSE {i \in DOMAIN trace : trace[i].resp = Pending}

\* the hooks of the engine that have been invoked and have not returned:
\* the one of the init or process_event call in progress and the get_timeout
\* of every suspended query
HooksInFlight == Cardinality(InFlight) + queries

\* C22 as stated: at every instant at most one hook of the engine, on_enter,
\* on_event, on_exit or get_timeout, is in flight.
C22_OneHookInFlight == HooksInFlight <= 1

\* C22, amended: every call has at most one hook in flight, the last it
\* invoked; an on_enter, on_event or on_exit is in flight only while no other
\* hook of the engine is; the hooks that are in flight together are the
\* get_timeout hooks of queries the host keeps alive at once, all on the
\* current state.
C22_OneHookPerCall ==
    /\ Cardinality(InFlight) <= 1
    /\ InFlight \subseteq {Len(trace)}
    /\ (pc = "idle") <=> (InFlight = {})
    /\ pc = "idle" => \A i \in DOMAIN trace : trace[i].resp # Pending
    /\ pc # "idle" => Last(trace).hook = pc
    /\ pc # "idle" => queries = 0
    /\ queries \in 0..MaxQueries
    /\ queries > 0 => Queryable(current_state)

\* two queries suspended in get_timeout of Root after an init that returned
C22_Witness ==
    /\ Completed /\ call = "init" /\ result = Ok
    /\ current_state = "Root"
    /\ InFlight = {}
    /\ queries = 2

\* the tasks awaiting a call they made through their guard
Callers == {t \in Tasks : tasks[t] = "calling"}

\* while the tasks reach the engine only through the lock: at most one task
\* awaits a call, a hook is in flight only while a task awaits a call, it is
\* then the one hook in flight and the last the call invoked, and the slot
\* is filled when the test body reads it and when all tasks are over
Serialized ==
    /\ Cardinality(Callers) <= 1
    /\ HooksInFlight > 0 => Cardinality(Callers) = 1
    /\ HooksInFlight <= 1
    /\ pc # "idle" => InFlight = {Len(trace)}
    /\ (tasks["main"] = "locked" /\ Joined(tasks)) => current_state # None
    /\ (\A t \in Tasks : tasks[t] = "done") => current_state # None

\* a task starts a call only when every hook of every earlier call has
\* returned
StartsAfterHooks ==
    \A t \in Tasks :
        (tasks[t] = "locked" /\ tasks'[t] = "calling") =>
            /\ pc = "idle"
            /\ queries = 0
            /\ \A i \in DOMAIN trace : trace[i].resp # Pending

\* C23: when several tasks share the engine through the lock and make their
\* calls while holding it, the hooks of two calls never interleave: a call
\* starts only after every hook of the call before it has returned, whichever
\* task made it, and at most one hook is in flight at any time; and when all
\* tasks are over the current state is not empty.
C23_LockedCallsDoNotInterleave ==
    []Serialized /\ [][StartsAfterHooks]_vars

\* task2 is suspended in the on_exit of a process_event call it made after
\* task1 made process_event calls that left the engine in Active
C23_Witness ==
    /\ tasks["task1"] = "done"
    /\ tasks["task2"] = "calling"
    /\ call = "process_event" /\ event = "Deactivate"
    /\ pc = "on_exit"
    /\ current_state = "Active"

\* C25: with Settings and Display each other's parent and both answering
\* Super to Timeout, a process_event(Timeout) call that began in one of them
\* has not returned: it is suspended in an on_event, has produced no result,
\* has left the current state alone, and the hooks it ran are on_event of
\* Settings and Display in turn, each answered Super.
C25_CyclicDelegationSpins ==
    (build = "loop" /\ call = "process_event" /\ event = "Timeout"
        /\ pre \in Cycle) =>
        /\ pc = "on_event"
        /\ result = NoResult
        /\ current_state = pre
        /\ trace[1].state = pre
        /\ \A i \in DOMAIN trace :
             /\ trace[i].hook = "on_event"
             /\ trace[i].state \in Cycle
             /\ i < Len(trace) =>
                  /\ trace[i].resp = Super
                  /\ trace[i + 1].state = CyclicResolver(trace[i].state)
                  /\ trace[i + 1].state # trace[i].state

\* the call has gone round the cycle as far as the model follows it
C25_Witness ==
    /\ build = "loop" /\ call = "process_event" /\ event = "Timeout"
    /\ pre = "Settings"
    /\ Len(trace) = MaxTrace
    /\ trace[MaxTrace - 1].resp = Super
    /\ pc = "on_event"

\* C26: a call that has invoked on_enter of a state whose on_enter always
\* transitions to itself, or to a state whose on_enter always transitions
\* back, has not returned: it is suspended in a hook with no result, and from
\* that on_enter on it alternates on_exit of the state just entered and
\* on_enter of the state that one named.
C26_EnterLoopSpins ==
    build = "loop" =>
        \A i \in At("on_enter") :
            trace[i].state \in Loopers =>
                /\ pc \in {"on_exit", "on_enter"}
                /\ result = NoResult
                /\ trace[i].resp \in {Pending, Transition(LoopNext(trace[i].state))}
                /\ Len(trace) >= i + 1 =>
                     /\ trace[i + 1].hook = "on_exit"
                     /\ trace[i + 1].state = trace[i].state
                /\ Len(trace) >= i + 2 =>
                     /\ trace[i + 2].hook = "on_enter"
                     /\ trace[i + 2].state = LoopNext(trace[i].state)

\* init(Menu) went on to Mute, which sent the engine back to Menu
C26_Witness ==
    /\ build = "loop" /\ call = "init" /\ initial_state = "Menu"
    /\ Len(trace) >= 5
    /\ trace[1].hook = "on_enter" /\ trace[1].state = "Menu"
    /\ trace[3].hook = "on_enter" /\ trace[3].state = "Mute"
    /\ trace[4] = [hook |-> "on_exit", state |-> "Mute", resp |-> Unit]
    /\ trace[5].hook = "on_enter" /\ trace[5].state = "Menu"
    /\ pc # "idle"

\* the number of times the call has invoked hook h on state s
Count(h, s) == Cardinality({i \in At(h) : trace[i].state = s})

\* C27: when on_enter of a state T answers Transition(next), the very next
\* hook of the call is on_exit of T, the hook after that is on_enter of next
\* (or, next being unregistered, the call fails there), and over the whole
\* call T is exited once per time it was entered, plus once if it was the
\* current state when the call began.
C27_EnteredStateExitedOnce ==
    /\ \A i \in At("on_enter") :
         trace[i].resp.kind = "Transition" =>
           /\ Len(trace) >= i + 1
           /\ trace[i + 1].hook = "on_exit"
           /\ trace[i + 1].state = trace[i].state
           /\ Len(trace) >= i + 2 =>
                /\ trace[i + 1].resp = Unit
                /\ trace[i + 2].hook = "on_enter"
                /\ trace[i + 2].state = trace[i].resp.arg
           /\ (Len(trace) = i + 1 /\ pc = "idle") =>
                /\ trace[i].resp.arg \notin states
                /\ result = StateNotRegistered(trace[i].resp.arg)
    /\ \A s \in states :
         /\ Count("on_exit", s) <= Count("on_enter", s) + (IF pre = s THEN 1 ELSE 0)
         /\ (Completed /\ result = Ok /\ s # current_state) =>
               Count("on_exit", s) = Count("on_enter", s) + (IF pre = s THEN 1 ELSE 0)

\* init entered a state that sent the engine on to the state that settled
C27_Witness ==
    /\ Completed /\ call = "init" /\ result = Ok /\ pre = None
    /\ Len(trace) = 3
    /\ trace[1].hook = "on_enter" /\ trace[1].resp = Transition("Root")
    /\ trace[1].state = "Settings"
    /\ trace[2] = [hook |-> "on_exit", state |-> "Settings", resp |-> Unit]
    /\ trace[3].state = "Root"

\* the states of the hooks h the call invoked, in order
StatesOf(h) ==
    LET sel == SelectSeq(trace, LAMBDA x : x.hook = h)
    IN  [i \in DOMAIN sel |-> sel[i].state]

\* a sequence without its last element
Front(s) == SubSeq(s, 1, Len(s) - 1)

\* C28: after a completed init or process_event call that began and ended
\* with a registered (or no) current state, whatever it returned, the states
\* it exited are the state that was current when it began followed by the
\* states it entered without the last, and the current state is the last
\* state it entered, or the one it began with if it entered none.  Call
\* after call this makes the exits the entries without the last.
C28_ExitsAreEntriesButLast ==
    (/\ Completed /\ call \in {"init", "process_event"}
     /\ (pre = None \/ pre \in states)
     /\ (current_state = None \/ current_state \in states)) =>
        LET en == StatesOf("on_enter")
            ex == StatesOf("on_exit")
        IN  IF en = <<>>
            THEN ex = <<>> /\ current_state = pre
            ELSE /\ ex = (IF pre = None THEN <<>> ELSE <<pre>>) \o Front(en)
                 /\ current_state = Last(en)

\* a call that failed in the on_enter of the second state it entered
C28_Witness ==
    /\ Completed /\ call = "process_event"
    /\ result.kind = "StateInvalid"
    /\ pre = "Display"
    /\ StatesOf("on_enter") = <<"Settings", "Root">>
    /\ StatesOf("on_exit") = <<"Display", "Settings">>
    /\ current_state = "Root"

\* C29: while a call is suspended in on_enter of a target the current-state
\* slot holds that target, and any on_exit of the previous state has
\* returned; while a call is suspended in on_exit the slot still holds the
\* state being exited.
C29_SlotSetBeforeEnter ==
    /\ pc = "on_enter" =>
         /\ current_state = Last(trace).state
         /\ current_state = current_target
         /\ \A i \in At("on_exit") : trace[i].resp = Unit
    /\ pc = "on_exit" =>
         /\ current_state = Last(trace).state
         /\ current_state = previous_state

\* on_enter of Settings is in flight after on_exit of Root has returned
C29_Witness ==
    /\ pc = "on_enter"
    /\ pre = "Root"
    /\ Len(trace) = 3
    /\ trace[2] = [hook |-> "on_exit", state |-> "Root", resp |-> Unit]
    /\ Last(trace) = [hook |-> "on_enter", state |-> "Settings", resp |-> Pending]
    /\ current_state = "Settings"

\* C30: when the on_event of an ancestor answers Transition, the next hook
\* is on_exit of the state that was current when process_event began, the
\* current state is still that state until that on_exit returns, and the
\* ancestor is exited only if the call entered it afterwards.
C30_AncestorTransitionExitsChild ==
    \A i \in At("on_event") :
        (trace[i].resp.kind = "Transition" /\ trace[i].state # pre) =>
            /\ Len(trace) >= i + 1
            /\ trace[i + 1].hook = "on_exit"
            /\ trace[i + 1].state = pre
            /\ trace[i + 1].resp = Pending => current_state = pre
            /\ \A j \in At("on_exit") :
                 trace[j].state = trace[i].state =>
                    /\ j > i + 1
                    /\ trace[j - 1].hook = "on_enter"
                    /\ trace[j - 1].state = trace[i].state

\* Root, reached from Display through Settings, asked for a transition
C30_Witness ==
    /\ Completed /\ call = "process_event" /\ result = Ok
    /\ pre = "Display"
    /\ Len(trace) = 5
    /\ trace[3].hook = "on_event" /\ trace[3].state = "Root"
    /\ trace[3].resp = Transition("Settings")
    /\ trace[4] = [hook |-> "on_exit", state |-> "Display", resp |-> Unit]
    /\ Count("on_exit", "Root") = 0
    /\ current_state = "Settings"

\* C31: a step of a process_event call that leaves the call with nothing but
\* on_event hooks (it answered Handled, Error or Super, or climbed to a
\* parent) leaves the current-state slot at the state that was current when
\* the call began and invokes no on_enter and no on_exit, on an ancestor or
\* on any state.
C31_DelegationLeavesSlot ==
    [][ (pc = "on_event" /\ \A i \in DOMAIN trace' : trace'[i].hook = "on_event") =>
          /\ current_state' = current_state
          /\ current_state' = pre
          /\ lastHook' = lastHook ]_vars

\* Root handled an event for Settings without ever having been entered
C31_Witness ==
    /\ Completed /\ call = "process_event" /\ result = Ok
    /\ pre = "Settings" /\ current_state = "Settings"
    /\ Len(trace) = 2
    /\ trace[2] = [hook |-> "on_event", state |-> "Root", resp |-> Handled]
    /\ lastHook["Root"] = "none"

\* C32: once an on_event has answered Super in a state whose parent, by the
\* resolver, has no handler in the registry, that on_event is the last hook
\* of the call, the call has returned StateNotRegistered naming the parent,
\* the current state is the one before the call, and the call has invoked
\* no on_exit and no on_enter.
C32_MissingParentFails ==
    \A i \in At("on_event") :
        (/\ trace[i].resp = Super
         /\ superstate_fn(trace[i].state) # None
         /\ superstate_fn(trace[i].state) \notin states) =>
            /\ i = Len(trace)
            /\ pc = "idle"
            /\ result = StateNotRegistered(superstate_fn(trace[i].state))
            /\ current_state = pre
            /\ At("on_exit") = {} /\ At("on_enter") = {}

\* an event climbed from Display to Settings, whose parent Root has no handler
C32_Witness ==
    /\ build = "orphan"
    /\ Completed /\ call = "process_event"
    /\ pre = "Display" /\ current_state = "Display"
    /\ Len(trace) = 2
    /\ trace[2] = [hook |-> "on_event", state |-> "Settings", resp |-> Super]
    /\ result = StateNotRegistered("Root")

RECURSIVE Chain(_, _)
\* state s followed by its ancestors, child first, n states at most
Chain(s, n) ==
    IF n = 0 THEN <<>>
    ELSE IF superstate_fn(s) = None THEN <<s>>
    ELSE <<s>> \o Chain(superstate_fn(s), n - 1)

\* the on_event hooks of a process_event call follow the chain of the state
\* that was current, child first, each state at most once
ClimbsOnce ==
    call = "process_event" =>
        LET chain == Chain(pre, Cardinality(states) + 1) IN
        /\ Len(chain) <= Cardinality(states)
        /\ \A i \in At("on_event") :
             /\ i <= Len(chain)
             /\ trace[i].state = chain[i]
        /\ \A s \in states : Count("on_event", s) <= 1

\* C33: with the acyclic resolver Display -> Settings -> Root, a
\* process_event call invokes on_event on the state that was current and
\* then on its ancestors in child-to-root order, at most once on each, and
\* provided every on_event returns, a call suspended in on_event comes to
\* return or to start a transition.
C33_DelegationTerminates ==
    /\ []ClimbsOnce
    /\ (call = "process_event" /\ pc = "on_event")
          ~> (pc = "idle" \/ At("on_exit") # {})

\* an event went up the whole chain and no state handled it
C33_Witness ==
    /\ Completed /\ call = "process_event"
    /\ pre = "Display"
    /\ Len(trace) = 3
    /\ trace[3] = [hook |-> "on_event", state |-> "Root", resp |-> Super]
    /\ result.kind = "InvalidEvent"

\* C34: once the host has called init, whatever that call or any later call
\* returned or is still doing, the current-state slot is not empty; and a
\* process_event call returns StateMachineNotInitialized only on an engine
\* on which init was never called.
C34_InitFillsSlotForGood ==
    /\ initial_state # None => current_state # None
    /\ (call = "process_event" /\ result = StateMachineNotInitialized) =>
           (initial_state = None /\ current_state = None)

\* after an init that failed in on_enter, an event was dispatched all the same
C34_Witness ==
    /\ Completed /\ call = "process_event"
    /\ initial_state = "Settings" /\ pre = "Settings"
    /\ lastHook = [s \in states |-> IF s = "Settings" THEN "on_enter" ELSE "none"]
    /\ trace = <<[hook |-> "on_event", state |-> "Settings",
                  resp |-> ErrorResp("m1")]>>
    /\ result = InvalidEvent("Settings", "m1")
    /\ entered = [state |-> "Settings", kind |-> "Error"]

\* C35: while the current-state slot holds an identifier without handler,
\* left there by a failed transition, every process_event call returns
\* StateNotRegistered naming it, invokes no hook and leaves the slot alone;
\* an init called then invokes no on_exit before the on_enter of its
\* target, and settles in the target if that on_enter answers Handled.
C35_UnregisteredSlotSticks ==
    (pre # None /\ pre \notin states) =>
        /\ call = "process_event" =>
             /\ pc = "idle"
             /\ trace = <<>>
             /\ result = StateNotRegistered(pre)
             /\ current_state = pre
        /\ (call = "init" /\ initial_state \in states) =>
             /\ trace # <<>>
             /\ trace[1].hook = "on_enter"
             /\ trace[1].state = initial_state
             /\ trace[1].resp = Handled =>
                  /\ pc = "idle" /\ result = Ok
                  /\ current_state = initial_state
                  /\ At("on_exit") = {}

\* an init that brought the engine back from the unregistered Volume
C35_Witness ==
    /\ Completed /\ call = "init" /\ result = Ok
    /\ pre = "Volume"
    /\ initial_state = "Root" /\ current_state = "Root"
    /\ trace = <<[hook |-> "on_enter", state |-> "Root", resp |-> Handled]>>

\* the answers of on_enter after which the protocol stops in the state entered
Settling == {"Handled", "Error", "Super"}

\* the call in progress began in the state entered last, and has entered none
SinceEntered ==
    /\ call \in {"init", "process_event"}
    /\ entered.kind \in Settling
    /\ pre = entered.state
    /\ At("on_enter") = {}

\* C36: a state whose on_enter answered Error or Super is the current state
\* when that call returns, as it is after Handled; a process_event call made
\* while it is current invokes its on_event first; an init made then invokes
\* its on_exit first; and an on_event answer Transition in such a call is
\* followed at once by the on_exit of that state.
C36_FailedEntryStaysCurrent ==
    /\ (pc = "idle" /\ At("on_enter") # {} /\ entered.kind \in Settling) =>
           /\ current_state = entered.state
           /\ Last(trace).hook = "on_enter" /\ Last(trace).state = entered.state
           /\ Last(trace).resp.kind = entered.kind
    /\ SinceEntered =>
           /\ trace # <<>>
           /\ call = "process_event" =>
                  trace[1].hook = "on_event" /\ trace[1].state = entered.state
           /\ call = "init" =>
                  trace[1].hook = "on_exit" /\ trace[1].state = entered.state
           /\ \A i \in At("on_event") :
                  trace[i].resp.kind = "Transition" =>
                      /\ i < Len(trace)
                      /\ trace[i + 1].hook = "on_exit"
                      /\ trace[i + 1].state = entered.state

\* Settings failed its on_enter, then got an event and is being exited
C36_Witness ==
    /\ entered = [state |-> "Settings", kind |-> "Error"]
    /\ call = "process_event" /\ pre = "Settings" /\ pc = "on_exit"
    /\ trace = <<[hook |-> "on_event", state |-> "Settings",
                  resp |-> Transition("Root")],
                 [hook |-> "on_exit", state |-> "Settings", resp |-> Pending]>>

\* the protocol of an init called while pre is the current state
ReinitProtocol ==
    (call = "init" /\ pre # None) =>
        /\ pre \in states =>
             /\ trace # <<>>
             /\ trace[1].hook = "on_exit" /\ trace[1].state = pre
             /\ trace[1].resp = Pending => current_state = pre
             /\ (trace[1].resp # Pending /\ Len(trace) = 1) =>
                    /\ initial_state \notin states
                    /\ current_state = initial_state
             /\ Len(trace) >= 2 =>
                    /\ trace[2].hook = "on_enter"
                    /\ trace[2].state = initial_state
                    /\ trace[2].resp = Pending => current_state = initial_state
        /\ (pre \notin states /\ initial_state \in states) =>
             /\ trace # <<>>
             /\ trace[1].hook = "on_enter" /\ trace[1].state = initial_state

\* C37: an init called on an engine that has a current state c first invokes
\* on_exit of c if c is registered, with the slot still at c; when that has
\* returned the slot holds the target s and the next hook is on_enter of s;
\* and the step that begins an init leaves the context as it was.
C37_ReinitIsTransition ==
    /\ []ReinitProtocol
    /\ [][ (pc = "idle" /\ call' = "init") => context' = context ]_vars

\* a second init, called with a context the hooks had changed, exits the
\* current state before anything else
C37_Witness ==
    /\ call = "init" /\ pre = "Settings" /\ initial_state = "Root"
    /\ pc = "on_exit" /\ current_state = "Settings"
    /\ trace = <<[hook |-> "on_exit", state |-> "Settings", resp |-> Pending]>>
    /\ context # InitialContext

\* the positions of the trace whose hook answered Transition to the state
\* that was current when it answered: pre for an on_event, the state just
\* entered for an on_enter
SelfTransitions ==
    {i \in DOMAIN trace :
        /\ trace[i].resp.kind = "Transition"
        /\ \/ trace[i].hook = "on_event" /\ trace[i].resp.arg = pre
           \/ trace[i].hook = "on_enter" /\ trace[i].resp.arg = trace[i].state}

\* C38: when on_event or on_enter answers Transition to the state that is
\* current, the next hook of the call is on_exit of that state, the call is
\* suspended until it returns, and the hook after it is on_enter of the same
\* state; the call does not return in between as it would after Handled.
C38_SelfTransitionIsExternal ==
    \A i \in SelfTransitions :
        /\ i < Len(trace)
        /\ trace[i + 1].hook = "on_exit"
        /\ trace[i + 1].state = trace[i].resp.arg
        /\ Len(trace) = i + 1 => (pc = "on_exit" /\ trace[i + 1].resp = Pending)
        /\ Len(trace) >= i + 2 =>
               /\ trace[i + 2].hook = "on_enter"
               /\ trace[i + 2].state = trace[i].resp.arg

\* Settings answered an event with Transition(Settings), was exited and
\* entered again, and answered that on_enter with Transition(Settings) too
C38_Witness ==
    /\ call = "process_event" /\ pre = "Settings" /\ pc = "on_enter"
    /\ Len(trace) = 5
    /\ trace[1] = [hook |-> "on_event", state |-> "Settings",
                   resp |-> Transition("Settings")]
    /\ trace[2] = [hook |-> "on_exit", state |-> "Settings", resp |-> Unit]
    /\ trace[3] = [hook |-> "on_enter", state |-> "Settings",
                   resp |-> Transition("Settings")]
    /\ trace[4] = [hook |-> "on_exit", state |-> "Settings", resp |-> Unit]
    /\ trace[5] = [hook |-> "on_enter", state |-> "Settings", resp |-> Pending]

\* the handler of the last .state call the host made for identifier s
LastAdded(s) ==
    LET I == {i \in DOMAIN Registrations : Registrations[i][1] = s}
        last == CHOOSE i \in I : \A j \in I : j <= i
    IN  Registrations[last][2]

\* the handler of the first .state call the host made for identifier s
FirstAdded(s) ==
    LET I == {i \in DOMAIN Registrations : Registrations[i][1] = s}
        first == CHOOSE i \in I : \A j \in I : i <= j
    IN  Registrations[first][2]

\* C39: on an engine built after Menu was registered twice, the registry has
\* one handler per identifier registered; every on_enter and on_event that
\* has returned gave the answer of the handler registered last for its state,
\* and a timeout query answers from the handler registered last for the
\* current state.
C39_LastRegistrationWins ==
    /\ states = {Registrations[i][1] : i \in DOMAIN Registrations}
    /\ \A i \in DOMAIN trace :
          /\ (trace[i].hook = "on_enter" /\ trace[i].resp # Pending) =>
                 trace[i].resp = UiOnEnter(LastAdded(trace[i].state))
          /\ (trace[i].hook = "on_event" /\ trace[i].resp # Pending) =>
                 trace[i].resp = UiOnEvent(LastAdded(trace[i].state), event)
    /\ (call = "get_current_timeout" /\ current_state \in states) =>
           timeout = UiTimeout(LastAdded(current_state), context)

\* Menu answered Back as DisplayState does, by Super, where the MenuState
\* registered first would have answered Transition(Root)
C39_Witness ==
    /\ build = "replaced"
    /\ LastAdded("Menu") = "Display" /\ FirstAdded("Menu") = "Menu"
    /\ Completed /\ call = "process_event" /\ event = "Back" /\ pre = "Menu"
    /\ trace = <<[hook |-> "on_event", state |-> "Menu", resp |-> Super],
                 [hook |-> "on_event", state |-> "Root",
                  resp |-> ErrorResp("Root: Unhandled event")]>>
    /\ UiOnEvent(FirstAdded("Menu"), event) = Transition("Root")
    /\ current_state = "Menu"
====
